---- MODULE Spec2Model ----
(***************************************************************************)
(* Model of the audio-to-motion synthesis engine of src/src/App.jsx:       *)
(* normalize, the overflow resolvers (default_peak, create_peak_bounce,    *)
(* create_peak_fold), create_actions_barrier, create_actions and autoval.  *)
(*                                                                         *)
(* Numbers.  The program computes with reals; the model computes with       *)
(* exact integers in fixed units:                                          *)
(*   - a normalized value v in [0,1] is the integer v*NS,                  *)
(*   - a position p is the integer p*PS (PS = 4*NS, so that the halves of  *)
(*     pitch_bias and of the fold's travel stay exact),                    *)
(*   - a carried time t (seconds) is the integer t*TS (TS = 4: midpoints   *)
(*     of midpoints of whole-second beats),                                *)
(*   - the `at` of an action is an exact fraction <<n, d>>, d > 0, of      *)
(*     TS units, because the bounce crossing time is a true quotient.      *)
(* pitch and energy entries are drawn from 1..MaxVal; normalize is         *)
(* invariant under increasing affine maps, so <<1,2>> stands for any two   *)
(* increasing values such as log10(100), log10(200).                       *)
(*                                                                         *)
(* Specifications:                                                         *)
(*   Spec          one call of create_actions on any features,             *)
(*   SpecResolver  one direct call of a resolver or of                     *)
(*                 create_actions_barrier,                                 *)
(*   SpecAutoval   runs of autoval, repeated and with create_actions in    *)
(*                 between, against a minimizer that may answer anything.  *)
(*   SpecFrame     create_actions and autoval called again and again on    *)
(*                 one object,                                             *)
(*   SpecObjective single evaluations of the meanv2 objective,             *)
(*   SpecUtils     direct calls of normalize, speed and dumpFunscript,     *)
(*   SpecExtractor getBeats and the worker's segmentation,                 *)
(*   SpecFold      single up and down steps of create_actions_barrier,     *)
(*   SpecHook      useAudioProcessor, its worker and the regenerating      *)
(*                 effect of App, automap off; SpecHookFair adds the       *)
(*                 scheduling,                                             *)
(*   SpecApp       the same with the stored automap setting on or off.     *)
(***************************************************************************)
EXTENDS Integers, Sequences, FiniteSets, TLC

\* ------------------------------------------------------------------ bounds
MaxVal == 2
MaxLen == 2
MaxBeat == 2
MaxCalls == 1

\* ------------------------------------------------------------------ state
VARIABLES
    audioData, \* the AudioFeatures object the caller holds and passes in
    op,        \* the operation that returned last
    argv,      \* the arguments of that call
    returned,  \* the value it returned
    memo,      \* the answers the minimizer has given, by request
    hist,      \* by arguments of autoval: its first result, and whether it ran again
    \* the rest of the state of useAudioProcessor and of App
    funscriptResult, \* the actions generated last
    progress,        \* {value, message}
    isLoading,
    isRendering,     \* also: generateFunscriptActions is between its two setProgress calls
    effectDue,       \* audioData changed and the effect that regenerates has not run yet
    settings,        \* <<energyMultiplier / 10, pitchRange, oorMap[overflowMode]>>
    app,             \* App: the autoMap setting, its effect due, the tree still mounted
    \* the requests and the two message channels
    requests,        \* per processAudioFile call, in order: how far it has got
    inbox,           \* processAudio messages the worker has not handled yet
    outbox           \* worker messages and error events the hook has not handled yet

hookVars == <<funscriptResult, progress, isLoading, isRendering, effectDue, settings, app,
              requests, inbox, outbox>>
vars == <<audioData, op, argv, returned, memo, hist, hookVars>>

\* the hook's own state after the first render, with the stored settings
HookMounted ==
    /\ funscriptResult = << >>
    /\ progress = [value |-> 0, message |-> "Ready"]
    /\ isLoading = FALSE
    /\ isRendering = FALSE
    /\ effectDue = FALSE
    /\ requests = << >>
    /\ inbox = << >>
    /\ outbox = << >>

\* App after the first render, with the stored automap setting
AppMounted(autoMap) == [autoMap |-> autoMap, autoMapDue |-> FALSE, mounted |-> TRUE]

\* ------------------------------------------------------------------ units
RECURSIVE Fact(_)
Fact(n) == IF n <= 1 THEN 1 ELSE n * Fact(n - 1)

NS == 2 * Fact(MaxVal)
PS == 4 * NS
TS == 2 * 2

Abs(x) == IF x < 0 THEN 0 - x ELSE x
Min2(a, b) == IF a <= b THEN a ELSE b
Max2(a, b) == IF a >= b THEN a ELSE b

\* Math.round on a position in PS units: floor(p + 1/2), again in PS units.
MathRound(p) == ((2 * p + PS) \div (2 * PS)) * PS

\* exact fractions <<n, d>> with d > 0
FracLe(a, b) == a[1] * b[2] <= b[1] * a[2]
FracEq(a, b) == a[1] * b[2] = b[1] * a[2]

RECURSIVE GCD(_, _)
GCD(a, b) == IF b = 0 THEN a ELSE GCD(b, a % b)

\* lowest terms, positive denominator
FracNorm(a) ==
    LET n == IF a[2] < 0 THEN 0 - a[1] ELSE a[1]
        d == Abs(a[2])
        g == GCD(Abs(n), d)
    IN <<n \div g, d \div g>>
FracAdd(a, b) == FracNorm(<<a[1] * b[2] + b[1] * a[2], a[2] * b[2]>>)
FracAbsDiff(a, b) == FracNorm(<<Abs(a[1] * b[2] - b[1] * a[2]), a[2] * b[2]>>)

\* the value Infinity of an objective
Infinity == <<1, 0>>

RECURSIVE SeqMin(_)
SeqMin(s) == IF Len(s) = 1 THEN s[1] ELSE Min2(s[1], SeqMin(Tail(s)))
RECURSIVE SeqMax(_)
SeqMax(s) == IF Len(s) = 1 THEN s[1] ELSE Max2(s[1], SeqMax(Tail(s)))
RECURSIVE SeqSum(_)
SeqSum(s) == IF s = <<>> THEN 0 ELSE s[1] + SeqSum(Tail(s))

\* ------------------------------------------------------------------ normalize
\* mutant: scaled by the maximum instead of the range
normalize_by_max(data) ==
    IF Len(data) = 0 THEN <<>>
    ELSE LET fmin == SeqMin(data)
             fmax == SeqMax(data)
         IN IF fmax = fmin
            THEN [k \in 1..Len(data) |-> NS \div 2]
            ELSE [k \in 1..Len(data) |-> ((data[k] - fmin) * NS) \div fmax]

\* values are in units of 1/NS: the quotient is exact because NS is a multiple
\* of every range fmax - fmin the inputs can have
normalize(data) ==
    IF Len(data) = 0 THEN <<>>
    ELSE LET fmin == SeqMin(data)
             fmax == SeqMax(data)
         IN IF fmax = fmin
            THEN [k \in 1..Len(data) |-> NS \div 2]
            ELSE [k \in 1..Len(data) |-> ((data[k] - fmin) * NS) \div (fmax - fmin)]

\* ------------------------------------------------------------------ resolvers
\* mutant: the clamp forgotten
default_peak_unclamped(pos, at) ==
    << [at |-> <<at, 1>>, pos |-> pos] >>

\* default_peak: clamps, does not round.
default_peak(pos, at) ==
    << [at |-> <<at, 1>>, pos |-> Min2(Max2(0, pos), 100 * PS)] >>

\* mutant: the two weights exchanged
int_at_swapped(pos, at, last_pos, last_at, limit) ==
    LET before_ratio == Abs(last_pos - limit)
        after_ratio == Abs(pos - limit)
    IN IF after_ratio + before_ratio = 0
       THEN <<at, 1>>
       ELSE <<before_ratio * last_at + after_ratio * at, after_ratio + before_ratio>>

\* crossing time of the boundary `limit`, as an exact fraction
int_at(pos, at, last_pos, last_at, limit) ==
    LET before_ratio == Abs(last_pos - limit)
        after_ratio == Abs(pos - limit)
    IN IF after_ratio + before_ratio = 0
       THEN <<at, 1>>
       ELSE <<before_ratio * at + after_ratio * last_at, after_ratio + before_ratio>>

\* the local closure `action` of both resolvers: rounds at emission
action(p, a) == [at |-> a, pos |-> MathRound(p)]

\* mutant: the boundary action of an out-of-bounds last_pos emitted always
create_peak_bounce_always_boundary(pos, at, last_pos, last_at) ==
    LET first == IF last_pos < 50 * PS
                 THEN << action(0, int_at(pos, at, last_pos, last_at, 0)) >>
                 ELSE << action(100 * PS, int_at(pos, at, last_pos, last_at, 100 * PS)) >>
        second == IF pos > 100 * PS
                  THEN << action(100 * PS, int_at(pos, at, last_pos, last_at, 100 * PS)),
                          action(200 * PS - pos, <<at, 1>>) >>
                  ELSE IF pos < 0
                  THEN << action(0, int_at(pos, at, last_pos, last_at, 0)),
                          action(0 - pos, <<at, 1>>) >>
                  ELSE << action(pos, <<at, 1>>) >>
    IN first \o second

create_peak_bounce(pos, at, last_pos, last_at) ==
    LET first == IF last_pos < 0
                 THEN << action(0, int_at(pos, at, last_pos, last_at, 0)) >>
                 ELSE IF last_pos > 100 * PS
                 THEN << action(100 * PS, int_at(pos, at, last_pos, last_at, 100 * PS)) >>
                 ELSE << >>
        second == IF pos > 100 * PS
                  THEN << action(100 * PS, int_at(pos, at, last_pos, last_at, 100 * PS)),
                          action(200 * PS - pos, <<at, 1>>) >>
                  ELSE IF pos < 0
                  THEN << action(0, int_at(pos, at, last_pos, last_at, 0)),
                          action(0 - pos, <<at, 1>>) >>
                  ELSE << action(pos, <<at, 1>>) >>
    IN first \o second

\* mutant: the correction of an out-of-bounds last_pos left out
create_peak_fold_no_correction(pos, at, last_pos, last_at) ==
    LET int_att == <<last_at + at, 2>>
        travel2 == Abs(last_pos - pos)
        half(x2) == x2 \div 2
    IN IF pos < 0
       THEN << action(half(2 * last_pos - travel2), int_att), action(last_pos, <<at, 1>>) >>
       ELSE IF pos > 100 * PS
       THEN << action(half(2 * last_pos + travel2), int_att), action(last_pos, <<at, 1>>) >>
       ELSE << action(pos, <<at, 1>>) >>

create_peak_fold(pos, at, last_pos, last_at) ==
    LET int_att == <<last_at + at, 2>>
        travel2 == Abs(last_pos - pos)          \* 2 * travel
        half(x2) == x2 \div 2                   \* exact: PS is a multiple of 4
        first == IF last_pos < 0
                 THEN << action(half(2 * last_pos + travel2), int_att) >>
                 ELSE IF last_pos > 100 * PS
                 THEN << action(half(2 * last_pos - travel2), int_att) >>
                 ELSE << >>
        second == IF pos < 0
                  THEN << action(half(2 * last_pos - travel2), int_att),
                          action(last_pos, <<at, 1>>) >>
                  ELSE IF pos > 100 * PS
                  THEN << action(half(2 * last_pos + travel2), int_att),
                          action(last_pos, <<at, 1>>) >>
                  ELSE << action(pos, <<at, 1>>) >>
    IN first \o second

\* the dispatch table `peaks`, indexed by Math.floor(overflow)
peaks(overflow, pos, at, last_pos, last_at) ==
    CASE overflow = 0 -> default_peak(pos, at)
      [] overflow = 1 -> create_peak_bounce(pos, at, last_pos, last_at)
      [] overflow = 2 -> create_peak_fold(pos, at, last_pos, last_at)

\* ------------------------------------------------------------------ objects
\* A JavaScript object is a record that carries the set of its own property
\* names in `fields`; a property outside `fields` is undefined.
EmptyObject ==
    [fields |-> {}, at |-> 0, beats |-> <<>>, pitch |-> <<>>, energy |-> <<>>,
     offsets |-> <<>>, energy_to_pos |-> <<>>]

AudioFeatures(pitch, energy, beats, at) ==
    [EmptyObject EXCEPT !.fields = {"at", "beats", "pitch", "energy"},
                        !.at = at, !.beats = beats, !.pitch = pitch, !.energy = energy]

\* ------------------------------------------------------------------ create_actions_barrier
\* mutant: the up action placed at the beat instead of the midpoint
barrier_step_no_midpoint(data, i, last_pos, last_at, overflow) ==
    LET unoffset_pos == data.energy_to_pos[i]
        at == data.beats[i] * TS
        offset == data.offsets[i]
        up_pos == unoffset_pos + offset
        up == peaks(overflow, up_pos, at, last_pos, last_at)
        down_pos == (unoffset_pos * (0 - 1)) + offset
        down == peaks(overflow, down_pos, at, up_pos, at)
    IN [actions |-> up \o down, last_pos |-> down_pos, last_at |-> at]

\* mutant: the emitted position carried instead of the target
up_step_carry_emitted(unoffset_pos, at, offset, last_pos, last_at, overflow) ==
    LET intermediate_at == (at + last_at) \div 2
        pos == unoffset_pos + offset
        emitted == peaks(overflow, pos, intermediate_at, last_pos, last_at)
    IN [actions |-> emitted, last_pos |-> emitted[Len(emitted)].pos, last_at |-> intermediate_at]

\* the up step of an iteration: the actions it appends and the carried
\* (last_pos, last_at) after it; times in TS units
up_step(unoffset_pos, at, offset, last_pos, last_at, overflow) ==
    LET intermediate_at == (at + last_at) \div 2
        pos == unoffset_pos + offset
    IN [actions |-> peaks(overflow, pos, intermediate_at, last_pos, last_at),
        last_pos |-> pos, last_at |-> intermediate_at]

\* the down step
down_step(unoffset_pos, at, offset, last_pos, last_at, overflow) ==
    LET pos == (unoffset_pos * (0 - 1)) + offset
    IN [actions |-> peaks(overflow, pos, at, last_pos, last_at),
        last_pos |-> pos, last_at |-> at]

\* one iteration of the for loop: the actions of the up and of the down step
\* and the carried (last_pos, last_at) after it
barrier_step(data, i, last_pos, last_at, overflow) ==
    LET unoffset_pos == data.energy_to_pos[i]
        at == data.beats[i] * TS
        offset == data.offsets[i]
        \* <<up, down>>, each taken from a one-element set so that it is
        \* evaluated once
        steps ==
            { <<up, down_step(unoffset_pos, at, offset, up.last_pos, up.last_at, overflow)>> :
                up \in { up_step(unoffset_pos, at, offset, last_pos, last_at, overflow) } }
    IN CHOOSE st \in { [actions |-> s[1].actions \o s[2].actions,
                        last_pos |-> s[2].last_pos, last_at |-> s[2].last_at] : s \in steps } : TRUE

RECURSIVE barrier_loop(_, _, _, _, _, _)
barrier_loop(data, i, num_frames, last_pos, last_at, overflow) ==
    IF i > num_frames THEN << >>
    ELSE LET st == barrier_step(data, i, last_pos, last_at, overflow)
         IN st.actions \o barrier_loop(data, i + 1, num_frames, st.last_pos, st.last_at, overflow)

create_actions_barrier(data, start_time, overflow) ==
    IF ~ ({"energy_to_pos", "beats", "offsets"} \subseteq data.fields)
    THEN << >>
    ELSE LET num_frames == Min2(Len(data.energy_to_pos),
                                Min2(Len(data.beats), Len(data.offsets)))
         IN barrier_loop(data, 1, num_frames, 50 * PS, start_time * TS, overflow)

\* ------------------------------------------------------------------ create_actions
\* the object handed to create_actions_barrier: a shallow copy of data with
\* offsets and energy_to_pos added
processedData(data, energy_multiplier, pitch_range, amplitude_centering, center_offset) ==
    LET normalized_pitch == normalize(data.pitch)
        normalized_energy == normalize(data.energy)
        pitch_bias2 == 100 - pitch_range                  \* 2 * pitch_bias
        n == Min2(Len(normalized_pitch), Len(normalized_energy))
    IN [data EXCEPT
          !.fields = data.fields \cup {"offsets", "energy_to_pos"},
          !.offsets = [k \in 1..n |->
                         4 * normalized_pitch[k] * pitch_range
                         + 2 * NS * pitch_bias2
                         + 4 * amplitude_centering * normalized_energy[k]
                         + PS * center_offset],
          !.energy_to_pos = [k \in 1..Len(normalized_energy) |->
                               4 * normalized_energy[k] * energy_multiplier * 50]]

\* mutant: processedData is data itself, not a copy
data_after_create_actions_in_place(data, energy_multiplier, pitch_range, amplitude_centering, center_offset) ==
    IF ~ ({"pitch", "energy"} \subseteq data.fields)
    THEN data
    ELSE processedData(data, energy_multiplier, pitch_range, amplitude_centering, center_offset)

\* the caller's object after create_actions returned: offsets and
\* energy_to_pos are assigned on the shallow copy { ...data }, normalize maps
\* into new arrays, and the barrier only reads
data_after_create_actions(data, energy_multiplier, pitch_range, amplitude_centering, center_offset) ==
    data

\* the call at the end of create_actions passes `overflow` in the position of
\* start_time and leaves the barrier's own overflow parameter at its default 0
create_actions(data, energy_multiplier, pitch_range, overflow, amplitude_centering, center_offset) ==
    IF ~ ({"pitch", "energy"} \subseteq data.fields)
    THEN << >>
    ELSE create_actions_barrier(
             processedData(data, energy_multiplier, pitch_range,
                           amplitude_centering, center_offset),
             overflow, 0)

\* ------------------------------------------------------------------ speed
\* _speed: |dpos| / dt / smax as an exact fraction (pos in PS units, at in TS
\* units); 0 when the two times are equal
_speed(A, B, smax) ==
    LET dt_n == B.at[1] * A.at[2] - A.at[1] * B.at[2]
        dt_d == A.at[2] * B.at[2]
    IN IF dt_n = 0 THEN <<0, 1>>
       ELSE FracNorm(<<Abs(B.pos - A.pos) * TS * dt_d, PS * dt_n * smax>>)

\* mutant: the clamp to [0,1] left out
speed_unclamped(A, B, smax) == _speed(A, B, smax)

speed(A, B, smax) ==
    LET v == _speed(A, B, smax)
    IN IF v[1] < 0 THEN <<0, 1>> ELSE IF v[1] > v[2] THEN <<1, 1>> ELSE v

\* ------------------------------------------------------------------ dumpFunscript
\* Math.round of the fraction x = <<n, d>>, d > 0: floor(x + 1/2)
RoundFrac(x) == (2 * x[1] + x[2]) \div (2 * x[2])
\* Math.floor of it
FloorFrac(x) == x[1] \div x[2]

\* The argument of dumpFunscript: undefined, or an array of actions whose `at`
\* (seconds) and `pos` are exact fractions.
Undefined == [absent |-> TRUE, list |-> << >>]
Array(list) == [absent |-> FALSE, list |-> list]

\* an action list of the resolvers (at in 1/TS s, pos in 1/PS) as such an array
Plain(acts) ==
    Array([k \in 1..Len(acts) |->
             [at |-> <<acts[k].at[1], acts[k].at[2] * TS>>, pos |-> <<acts[k].pos, PS>>]])

\* the object that is serialised; the metadata texts are fixed
Funscript(actions, duration) ==
    [actions |-> actions, inverted |-> FALSE,
     metadata |-> [creator |-> "PythonDancerJS", duration |-> duration, type |-> "basic"],
     range |-> 100, version |-> "1.0"]

\* mutant: milliseconds and positions truncated
dumpFunscript_floor(data) ==
    IF data.absent \/ Len(data.list) = 0
    THEN Funscript(<< >>, 0)
    ELSE LET actions == [k \in 1..Len(data.list) |->
                           [at |-> FloorFrac(<<data.list[k].at[1] * 1000, data.list[k].at[2]>>),
                            pos |-> FloorFrac(data.list[k].pos)]]
         IN Funscript(actions, actions[Len(actions)].at)

dumpFunscript(data) ==
    IF data.absent \/ Len(data.list) = 0
    THEN Funscript(<< >>, 0)
    ELSE LET actions == [k \in 1..Len(data.list) |->
                           [at |-> RoundFrac(<<data.list[k].at[1] * 1000, data.list[k].at[2]>>),
                            pos |-> RoundFrac(data.list[k].pos)]]
             duration == IF Len(actions) > 0 THEN actions[Len(actions)].at ELSE 0
         IN Funscript(actions, duration)

\* ------------------------------------------------------------------ extractor
\* Frame times are exact fractions of a second; frame i of the code (from 0)
\* is element i + 1 here.
framesToTime(numFrames, sr, hopLength) ==
    [k \in 1..numFrames |-> <<(k - 1) * hopLength, sr>>]

\* a < b on fractions with positive denominators
FracLt(a, b) == a[1] * b[2] < b[1] * a[2]
FracSub(a, b) == <<a[1] * b[2] - b[1] * a[2], a[2] * b[2]>>

minBeatInterval == <<3, 10>>
\* lastPeakTime before the first accepted peak: -Infinity
NoPeak == <<0 - 1, 0>>

\* the peak test of getBeats at element k: above 0.2 * maxRMS and a strict
\* local maximum
IsPeak(rmsValues, k) ==
    /\ 5 * rmsValues[k] > SeqMax(rmsValues)
    /\ rmsValues[k] > rmsValues[k - 1]
    /\ rmsValues[k] > rmsValues[k + 1]

\* mutant: a peak exactly minBeatInterval after the last one is accepted
far_enough_at_least(currentTime, lastPeakTime) ==
    lastPeakTime = NoPeak \/ ~ FracLt(FracSub(currentTime, lastPeakTime), minBeatInterval)

\* currentTime - lastPeakTime > minBeatInterval
far_enough(currentTime, lastPeakTime) ==
    lastPeakTime = NoPeak \/ FracLt(minBeatInterval, FracSub(currentTime, lastPeakTime))

\* the for loop of getBeats from element k on
RECURSIVE getBeats_loop(_, _, _, _, _)
getBeats_loop(rmsValues, frameTimes, k, lastPeakTime, beats) ==
    IF k > Len(rmsValues) - 1 THEN beats
    ELSE IF IsPeak(rmsValues, k) /\ far_enough(frameTimes[k], lastPeakTime)
         THEN getBeats_loop(rmsValues, frameTimes, k + 1, frameTimes[k],
                            Append(beats, frameTimes[k]))
         ELSE getBeats_loop(rmsValues, frameTimes, k + 1, lastPeakTime, beats)

getBeats(rmsValues, sr, hopLength) ==
    getBeats_loop(rmsValues, framesToTime(Len(rmsValues), sr, hopLength), 2, NoPeak, << >>)

\* mutant: a boundary recorded for the first beat as well
push_split_every_beat(splits, last, k) == Append(splits, k)

\* if (last > 0) splits.push(k)
push_split(splits, last, k) == IF last > 0 THEN Append(splits, k) ELSE splits

\* the loop that computes `splits` (frame indices from 0) and consumes beats
RECURSIVE splits_loop(_, _, _, _, _)
splits_loop(frames, beats, k, last, splits) ==
    IF k > Len(frames) \/ last >= Len(beats) THEN [splits |-> splits, last |-> last]
    ELSE IF FracLt(beats[last + 1], frames[k])
         THEN splits_loop(frames, beats, k + 1, last + 1, push_split(splits, last, k - 1))
         ELSE splits_loop(frames, beats, k + 1, last, splits)

\* splits after the closing -1, and the number of beats consumed
worker_splits(frames, beats) ==
    LET r == splits_loop(frames, beats, 1, 0, <<0>>)
    IN [splits |-> Append(r.splits, 0 - 1), last |-> r.last]

\* sum of values[start..end-1], indices from 0
RECURSIVE SumSpan(_, _, _)
SumSpan(values, start, end) ==
    IF start >= end THEN 0 ELSE values[start + 1] + SumSpan(values, start + 1, end)

\* fpitch / frms: one sum per pair of consecutive splits
segment_sums(values, splits) ==
    [i \in 1..(Len(splits) - 1) |->
        SumSpan(values, splits[i],
                IF splits[i + 1] = 0 - 1 THEN Len(values) ELSE splits[i + 1])]

\* Math.log10(Math.max(0.01, p)) kept as a term: the argument of the
\* logarithm in hundredths
logPitch(p) == [log10_of_hundredths |-> Max2(1, 100 * p)]

\* what the worker computes between its first progress message and
\* audioDataReady, from the arrays of getRMS and getPitch
extract_features(rms, pitches, sr, hopLength, duration) ==
    LET minLength == Min2(Len(rms), Len(pitches))
        truncatedRms == SubSeq(rms, 1, minLength)
        truncatedPitches == SubSeq(pitches, 1, minLength)
        beats == getBeats(truncatedRms, sr, hopLength)
        frames == framesToTime(Len(truncatedRms), sr, hopLength)
        splits == worker_splits(frames, beats).splits
        fpitch == segment_sums(truncatedPitches, splits)
        frms == segment_sums(truncatedRms, splits)
    IN AudioFeatures([i \in 1..Len(fpitch) |-> logPitch(fpitch[i])], frms, beats, duration)

\* ------------------------------------------------------------------ autoval
RECURSIVE FracSum(_)
FracSum(s) == IF s = << >> THEN <<0, 1>> ELSE FracAdd(s[1], FracSum(Tail(s)))

\* the early return of autoval (data.length is undefined on an object)
autoval_guard(data) ==
    \/ ~ ("pitch" \in data.fields) \/ Len(data.pitch) = 0
    \/ ~ ("energy" \in data.fields) \/ Len(data.energy) = 0

cmean(data, pitch_range) ==
    IF pitch_range = 0 THEN Infinity
    ELSE LET result == create_actions(data, 0, pitch_range, 0, 0, 0)
             Y == [k \in 1..Len(result) |-> result[k].pos]
         IN IF Len(Y) = 0 THEN Infinity
            ELSE FracNorm(<<SeqSum(Y), Len(Y) * PS>>)

pdst(data, tpi, p) ==
    LET a == cmean(data, p)
    IN IF a = Infinity THEN Infinity ELSE FracAbsDiff(a, <<tpi, 1>>)

\* the speeds of consecutive pairs of result
pair_speeds(result, smax) ==
    [k \in 1..(Len(result) - 1) |-> speed(result[k], result[k + 1], smax)]

cemean(data, pres, target_speed, energy_multiplier) ==
    IF energy_multiplier < 0 THEN Infinity
    ELSE LET result == create_actions(data, energy_multiplier, pres, 0, 0, 0)
         IN IF Len(result) < 2 THEN Infinity
            ELSE LET speeds == pair_speeds(result, 1)
                     averageSpeed == FracNorm(<<FracSum(speeds)[1],
                                                FracSum(speeds)[2] * Len(speeds)>>)
                 IN FracAbsDiff(averageSpeed, <<target_speed, 1>>)

\* mutant: the pair speeds compared with target_speed before the clamp
v2_objective_unclamped(result, target_speed, v2above) ==
    LET speeds == [k \in 1..(Len(result) - 1) |-> _speed(result[k], result[k + 1], 400)]
        aboveTarget == Cardinality({ k \in 1..Len(speeds) :
                           ~ FracLe(speeds[k], <<target_speed, 1>>) })
    IN FracAbsDiff(<<aboveTarget, Len(speeds)>>, v2above)

\* cemeanv2 once create_actions returned at least 2 actions: the share of
\* pairs faster than target_speed against v2above
v2_objective(result, target_speed, v2above) ==
    LET speeds == pair_speeds(result, 400)
        aboveTarget == Cardinality({ k \in 1..Len(speeds) :
                           ~ FracLe(speeds[k], <<target_speed, 1>>) })
    IN FracAbsDiff(<<aboveTarget, Len(speeds)>>, v2above)

cemeanv2(data, pres, target_speed, v2above, energy_multiplier) ==
    IF energy_multiplier < 0 THEN Infinity
    ELSE LET result == create_actions(data, energy_multiplier, pres, 0, 0, 0)
         IN IF Len(result) < 2 THEN Infinity
            ELSE v2_objective(result, target_speed, v2above)

celen(data, pres, v2above, energy_multiplier) ==
    IF energy_multiplier < 0 THEN Infinity
    ELSE LET result == create_actions(data, energy_multiplier, pres, 0, 0, 0)
         IN IF Len(result) < 2 THEN Infinity
            ELSE LET distances == [k \in 1..(Len(result) - 1) |->
                                     Abs(result[k].pos - result[k + 1].pos)]
                 IN FracAbsDiff(<<SeqSum(distances), Len(distances) * 100 * PS>>, v2above)

\* optimizers[opt] applied to e; opt outside 0..2 selects undefined
selectedOptimizer(opt, data, pres, target_speed, v2above, e) ==
    CASE opt = 0 -> cemean(data, pres, target_speed, e)
      [] opt = 1 -> cemeanv2(data, pres, target_speed, v2above, e)
      [] opt = 2 -> celen(data, pres, v2above, e)

\* nelderMead is the external minimizer of the package fmin.  What it is given
\* is the objective and the initial guess; the model identifies an objective
\* by its values on a probe grid.  Its answer is any finite number, or an
\* exception, fixed per (objective, guess): the same request gets the same
\* answer (the table `memo`), a new request any answer.
PitchGrid == {0, 100}
EnergyGrid == {0 - 1, 1, 10}
PitchAnswers == {0 - 250, 37, 250}
EnergyAnswers == {0 - 5, 3, 150}

Thrown == [threw |-> TRUE, x |-> 0]
Found(x) == [threw |-> FALSE, x |-> x]

\* mutant: the pitch stage warm-started from the result of the previous run
pres_guess_warm == IF op = "autoval" THEN returned[1] ELSE 100

pres_guess == 100
eres_guess == 10

Request(callable, table, guess) == [callable |-> callable, f |-> table, x0 |-> guess]

nelderMead(table, request, answers) ==
    IF ~ request.callable THEN { Thrown }
    ELSE IF request \in DOMAIN table THEN { table[request] }
    ELSE { Thrown } \cup { Found(x) : x \in answers }

\* mutant: the clamp of the pitch result forgotten
pres_of_unclamped(answer) ==
    IF answer.threw THEN 100 ELSE answer.x

\* the pitch stage after the minimizer answered: clamp, or the default
pres_of(answer) ==
    IF answer.threw THEN 100 ELSE Min2(200, Max2(0 - 200, answer.x))

\* mutant: the catch block falls back to 0 instead of 10
eres_of_zero_default(answer) ==
    IF answer.threw THEN 0 ELSE Min2(100, Max2(0, answer.x))

\* the energy stage after the minimizer answered
eres_of(answer) ==
    IF answer.threw THEN 10 ELSE Min2(100, Max2(0, answer.x))

pitch_request(data, tpi) ==
    Request(TRUE, [p \in PitchGrid |-> pdst(data, tpi, p)], pres_guess)

energy_request(data, pres, target_speed, v2above, opt) ==
    IF opt \in 0..2
    THEN Request(TRUE,
                 [e \in EnergyGrid |->
                    selectedOptimizer(opt, data, pres, target_speed, v2above, e)],
                 eres_guess)
    ELSE Request(FALSE, << >>, eres_guess)

\* the empty table
NoEntries == [x \in {} |-> x]

\* ------------------------------------------------------------------ inputs
RECURSIVE SeqsUpTo(_, _)
SeqsUpTo(S, n) ==
    IF n = 0 THEN { << >> }
    ELSE LET shorter == SeqsUpTo(S, n - 1)
         IN shorter \cup { Append(s, x) : s \in { t \in shorter : Len(t) = n - 1 }, x \in S }

NonDecreasing(s) == \A k \in 1..(Len(s) - 1) : s[k] <= s[k + 1]

Values == 1..MaxVal
Beats == { b \in SeqsUpTo(0..MaxBeat, MaxLen) : NonDecreasing(b) }
FeatureSet ==
    { AudioFeatures(p, e, b, MaxBeat) :
        p \in SeqsUpTo(Values, MaxLen), e \in SeqsUpTo(Values, MaxLen), b \in Beats }

EnergyMultipliers == {0, 1, 3}
PitchRanges == {20, 100}
OverflowModes == {0, 1, 2}
\* <<energy_multiplier, pitch_range, overflow, amplitude_centering, center_offset>>:
\* every multiplier, range and mode with the default centering and offset,
\* and every mode with both set
CreateActionsArgs ==
    { <<em, pr, ov, 0, 0>> : em \in EnergyMultipliers, pr \in PitchRanges, ov \in OverflowModes }
    \cup { <<1, 100, ov, 30, 0 - 70>> : ov \in OverflowModes }

\* target positions and carried positions for direct resolver calls, in PS
\* units: half-integers, in range, just outside and far outside [0,100]
Targets == { (0 - 150) * PS, (0 - 30) * PS, 0, (101 * PS) \div 2, 100 * PS, 120 * PS, 250 * PS }
EnergyToPos == { 0, 30 * PS, 150 * PS }
Offsets == { (0 - 20) * PS, (101 * PS) \div 2, 130 * PS }

\* ------------------------------------------------------------------ operations
Init ==
    /\ audioData \in FeatureSet \cup {EmptyObject}
    /\ op = "init"
    /\ argv = [none |-> TRUE]
    /\ returned = << >>
    /\ memo = NoEntries
    /\ hist = NoEntries
    /\ HookMounted /\ settings = <<1, 20, 0>> /\ app = AppMounted(FALSE)

\* One call per behaviour: the functions below keep no state between calls
\* (argv and returned are overwritten), so a second call reaches nothing new.
create_actions_call(em, pr, ov, ac, co) ==
    /\ op' = "create_actions"
    /\ argv' = [energy_multiplier |-> em, pitch_range |-> pr, overflow |-> ov,
                amplitude_centering |-> ac, center_offset |-> co]
    /\ returned' = create_actions(audioData, em, pr, ov, ac, co)
    /\ audioData' = data_after_create_actions(audioData, em, pr, ac, co)
    /\ UNCHANGED <<memo, hist, hookVars>>

CallCreateActions ==
    /\ op = "init"
    /\ \E a \in CreateActionsArgs : create_actions_call(a[1], a[2], a[3], a[4], a[5])

Next == CallCreateActions

Spec == Init /\ [][Next]_vars

\* direct calls of the exported resolvers and of create_actions_barrier
InitResolver ==
    /\ audioData = EmptyObject
    /\ op = "init"
    /\ argv = [none |-> TRUE]
    /\ returned = << >>
    /\ memo = NoEntries
    /\ hist = NoEntries
    /\ HookMounted /\ settings = <<1, 20, 0>> /\ app = AppMounted(FALSE)

CallPeak ==
    /\ op = "init"
    /\ \E ov \in OverflowModes, pos \in Targets, last_pos \in Targets \cup {50 * PS},
       at \in 0..MaxBeat, last_at \in 0..MaxBeat :
        /\ last_at <= at
        /\ op' = "peak"
        /\ argv' = [overflow |-> ov, pos |-> pos, at |-> at * TS,
                    last_pos |-> last_pos, last_at |-> last_at * TS]
        /\ returned' = peaks(ov, pos, at * TS, last_pos, last_at * TS)
        /\ UNCHANGED <<audioData, memo, hist, hookVars>>

\* int_at is exported and can be called on its own, also with pos and
\* last_pos both on the limit
CallIntAt ==
    /\ op = "init"
    /\ \E pos \in Targets, last_pos \in Targets, limit \in {0, 100 * PS},
       at \in 0..MaxBeat, last_at \in 0..MaxBeat :
        /\ last_at <= at
        /\ op' = "int_at"
        /\ argv' = [pos |-> pos, at |-> at * TS, last_pos |-> last_pos,
                    last_at |-> last_at * TS, limit |-> limit]
        /\ returned' = int_at(pos, at * TS, last_pos, last_at * TS, limit)
        /\ UNCHANGED <<audioData, memo, hist, hookVars>>

\* start_time in seconds: the default 0 and a later start
StartTimes == {0, 1}

CallBarrier ==
    /\ op = "init"
    /\ \E e2p \in SeqsUpTo(EnergyToPos, MaxLen), offs \in SeqsUpTo(Offsets, MaxLen),
       b \in Beats, ov \in OverflowModes, start_time \in StartTimes :
        /\ op' = "barrier"
        /\ argv' = [data |-> [EmptyObject EXCEPT
                                 !.fields = {"energy_to_pos", "beats", "offsets"},
                                 !.energy_to_pos = e2p, !.beats = b, !.offsets = offs],
                    start_time |-> start_time, overflow |-> ov]
        /\ returned' = create_actions_barrier(argv'.data, start_time, ov)
        /\ UNCHANGED <<audioData, memo, hist, hookVars>>

NextResolver == CallPeak \/ CallIntAt \/ CallBarrier

SpecResolver == InitResolver /\ [][NextResolver]_vars

\* autoval on features as the extractor delivers them: pitch and energy are
\* index-aligned, one entry per segment (a low-pitched loud segment or a
\* high-pitched quiet one); the beats are strictly increasing and positive,
\* one per segment at whole seconds, or none was detected
SegmentKinds == { <<1, MaxVal>>, <<MaxVal, 1>> }
Segments == SeqsUpTo(SegmentKinds, MaxLen)
DetectedBeats(n) ==
    IF n <= MaxBeat THEN { << >>, [k \in 1..n |-> k] } ELSE { << >> }
AutovalData ==
    UNION { { AudioFeatures([k \in 1..Len(sg) |-> sg[k][1]],
                            [k \in 1..Len(sg) |-> sg[k][2]], b, MaxBeat) :
                b \in DetectedBeats(Len(sg)) } : sg \in Segments }

TargetPitches == {15}
TargetSpeeds == {300}
TargetPercentages == { <<60, 100>> }
Modes == {0, 1, 2, 3}

InitAutoval ==
    /\ audioData \in AutovalData \cup {EmptyObject}
    /\ op = "init"
    /\ argv = [none |-> TRUE]
    /\ returned = << >>
    /\ memo = NoEntries
    /\ hist = NoEntries
    /\ HookMounted /\ settings = <<1, 20, 0>> /\ app = AppMounted(FALSE)

\* the caller's object after autoval returned: autoval assigns nothing to
\* data itself; its objectives hand data to create_actions, the pitch stage
\* with energy_multiplier 0 and the energy stage with the tuned pitch range
data_after_autoval(data, pres) ==
    IF autoval_guard(data)
    THEN data
    ELSE data_after_create_actions(
             data_after_create_actions(data, 0, pres_guess, 0, 0), eres_guess, pres, 0, 0)

\* the body of autoval after the guard: pitch stage, then energy stage
autoval_stages(tpi, target_speed, v2above, opt) ==
    \E req1 \in { pitch_request(audioData, tpi) } :
    \E a1 \in nelderMead(memo, req1, PitchAnswers) :
    \E memo1 \in { IF req1 \in DOMAIN memo THEN memo ELSE memo @@ (req1 :> a1) } :
    \E req2 \in { energy_request(audioData, pres_of(a1), target_speed, v2above, opt) } :
    \E a2 \in nelderMead(memo1, req2, EnergyAnswers) :
        /\ returned' = <<pres_of(a1), eres_of(a2)>>
        /\ memo' = IF req2 \in DOMAIN memo1 \/ ~ req2.callable
                   THEN memo1 ELSE memo1 @@ (req2 :> a2)

autoval(tpi, target_speed, v2above, opt) ==
    /\ op' = "autoval"
    /\ argv' = [tpi |-> tpi, target_speed |-> target_speed, v2above |-> v2above, opt |-> opt]
    /\ IF autoval_guard(audioData)
       THEN returned' = <<0, 0>> /\ memo' = memo
       ELSE autoval_stages(tpi, target_speed, v2above, opt)
    /\ hist' = IF argv' \in DOMAIN hist
               THEN [hist EXCEPT ![argv'].runs = 2]
               ELSE hist @@ (argv' :> [first |-> returned', runs |-> 1])
    /\ audioData' = data_after_autoval(audioData, returned'[1])
    /\ UNCHANGED hookVars

CallAutoval ==
    \E tpi \in TargetPitches, ts \in TargetSpeeds, v2 \in TargetPercentages, opt \in Modes :
        /\ Cardinality(DOMAIN hist) < MaxCalls
             \/ [tpi |-> tpi, target_speed |-> ts, v2above |-> v2, opt |-> opt] \in DOMAIN hist
        /\ autoval(tpi, ts, v2, opt)

\* a create_actions call between two autoval calls
CallCreateActionsBetween ==
    /\ op = "autoval"
    /\ create_actions_call(1, 100, 0, 0, 0)

NextAutoval == CallAutoval \/ CallCreateActionsBetween

SpecAutoval == InitAutoval /\ [][NextAutoval]_vars

\* create_actions and autoval called again and again on one object, in any
\* order; hist keeps the first result of every argument list
FrameData == { d \in AutovalData : Len(d.beats) = Len(d.pitch) } \cup {EmptyObject}
FrameArgs == { <<1, 100, 0, 0, 0>>, <<3, 20, 2, 30, 0 - 70>> }
FrameModes == {1, 2}

InitFrame ==
    /\ audioData \in FrameData
    /\ op = "init"
    /\ argv = [none |-> TRUE]
    /\ returned = << >>
    /\ memo = NoEntries
    /\ hist = NoEntries
    /\ HookMounted /\ settings = <<1, 20, 0>> /\ app = AppMounted(FALSE)

MayCall(args) == Cardinality(DOMAIN hist) < MaxCalls + 1 \/ args \in DOMAIN hist

CreateActionsAgain ==
    \E a \in FrameArgs :
        /\ op' = "create_actions"
        /\ argv' = [energy_multiplier |-> a[1], pitch_range |-> a[2], overflow |-> a[3],
                    amplitude_centering |-> a[4], center_offset |-> a[5]]
        /\ MayCall(argv')
        /\ returned' = create_actions(audioData, a[1], a[2], a[3], a[4], a[5])
        /\ audioData' = data_after_create_actions(audioData, a[1], a[2], a[4], a[5])
        /\ hist' = IF argv' \in DOMAIN hist
                   THEN [hist EXCEPT ![argv'].runs = 2]
                   ELSE hist @@ (argv' :> [first |-> returned', runs |-> 1])
        /\ UNCHANGED <<memo, hookVars>>

AutovalAgain ==
    \E tpi \in TargetPitches, ts \in TargetSpeeds, v2 \in TargetPercentages, opt \in FrameModes :
        /\ MayCall([tpi |-> tpi, target_speed |-> ts, v2above |-> v2, opt |-> opt])
        /\ autoval(tpi, ts, v2, opt)

NextFrame == CreateActionsAgain \/ AutovalAgain

SpecFrame == InitFrame /\ [][NextFrame]_vars

\* the meanv2 objective as the minimizer evaluates it: at any multiplier on
\* the features, and on the actions of beats less than a second apart (an
\* eighth of a second between actions), where a pair is faster than smax
ObjectiveMultipliers == {0 - 1, 0, 1, 3, 10}
ObjectiveTargets == {0, 1, 300}
FastActions == { [at |-> <<t, 2>>, pos |-> p] : t \in 0..MaxBeat, p \in {0, 100 * PS} }
FastResults ==
    { r \in SeqsUpTo(FastActions, MaxLen + 1) :
        Len(r) >= 2 /\ \A k \in 1..(Len(r) - 1) : FracLe(r[k].at, r[k + 1].at) }

InitObjective ==
    /\ audioData \in AutovalData
    /\ op = "init"
    /\ argv = [none |-> TRUE]
    /\ returned = << >>
    /\ memo = NoEntries
    /\ hist = NoEntries
    /\ HookMounted /\ settings = <<1, 20, 0>> /\ app = AppMounted(FALSE)

CallCemeanv2 ==
    /\ op = "init"
    /\ \E e \in ObjectiveMultipliers, pres \in PitchRanges, ts \in ObjectiveTargets,
       v2 \in TargetPercentages :
        /\ op' = "cemeanv2"
        /\ argv' = [energy_multiplier |-> e, pres |-> pres, target_speed |-> ts, v2above |-> v2]
        /\ returned' = cemeanv2(audioData, pres, ts, v2, e)
        /\ audioData' = data_after_create_actions(audioData, e, pres, 0, 0)
        /\ UNCHANGED <<memo, hist, hookVars>>

CallV2Objective ==
    /\ op = "init"
    /\ \E result \in FastResults, ts \in ObjectiveTargets, v2 \in TargetPercentages :
        /\ op' = "v2_objective"
        /\ argv' = [result |-> result, target_speed |-> ts, v2above |-> v2]
        /\ returned' = v2_objective(result, ts, v2)
        /\ UNCHANGED <<audioData, memo, hist, hookVars>>

NextObjective == CallCemeanv2 \/ CallV2Objective

SpecObjective == InitObjective /\ [][NextObjective]_vars

\* ------------------------------------------------------------------ utilities
\* direct calls of the exported utilities normalize, speed and dumpFunscript
NormalizeInputs == SeqsUpTo(0..MaxVal, MaxLen + 1)

\* actions at whole and half seconds, at the ends and inside the range
SpeedActions ==
    { [at |-> a, pos |-> p] :
        a \in { <<t * TS, 1>> : t \in 0..MaxBeat } \cup { <<TS, 2>> },
        p \in { 0, (101 * PS) \div 2, 100 * PS } }
SpeedMaxes == {1, 300}

\* actions to export: times that fall on and between milliseconds, positions
\* that round down, round up, are negative and are above 100
ExportActions ==
    { [at |-> a, pos |-> p] :
        a \in { <<0, 1>>, <<1, 2>>, <<2469, 2000>> },
        p \in { <<251, 5>>, <<101, 2>>, <<0 - 1, 2>>, <<120, 1>> } }
ExportInputs == { Undefined } \cup { Array(l) : l \in SeqsUpTo(ExportActions, MaxLen) }

InitUtils ==
    /\ audioData = EmptyObject
    /\ op = "init"
    /\ argv = [none |-> TRUE]
    /\ returned = << >>
    /\ memo = NoEntries
    /\ hist = NoEntries
    /\ HookMounted /\ settings = <<1, 20, 0>> /\ app = AppMounted(FALSE)

CallNormalize ==
    /\ op = "init"
    /\ \E d \in NormalizeInputs :
        /\ op' = "normalize"
        /\ argv' = [data |-> d]
        /\ returned' = normalize(d)
        /\ UNCHANGED <<audioData, memo, hist, hookVars>>

CallSpeed ==
    /\ op = "init"
    /\ \E A \in SpeedActions, B \in SpeedActions, smax \in SpeedMaxes :
        /\ op' = "speed"
        /\ argv' = [A |-> A, B |-> B, smax |-> smax]
        /\ returned' = speed(A, B, smax)
        /\ UNCHANGED <<audioData, memo, hist, hookVars>>

CallDumpFunscript ==
    /\ op = "init"
    /\ \E d \in ExportInputs :
        /\ op' = "dumpFunscript"
        /\ argv' = [data |-> d]
        /\ returned' = dumpFunscript(d)
        /\ UNCHANGED <<audioData, memo, hist, hookVars>>

NextUtils == CallNormalize \/ CallSpeed \/ CallDumpFunscript

SpecUtils == InitUtils /\ [][NextUtils]_vars

\* ------------------------------------------------------------------ extractor calls
\* RMS arrays over silence, a quiet and a loud level (the quiet level is
\* exactly 0.2 of the loud one); the pitch of a frame is constant or rises
MaxFrames == MaxLen + 4
RmsLevels == {0, 1, 5}
RmsInputs == SeqsUpTo(RmsLevels, MaxFrames)
PitchTracks == { [len \in 0..MaxFrames |-> [k \in 1..len |-> 1]],
                 [len \in 0..MaxFrames |-> [k \in 1..len |-> k]] }
\* <<hopLength, sr>>: frames 0.15 s apart (two frames are exactly
\* minBeatInterval apart) and 0.2 s apart
FrameRates == { <<3, 20>>, <<1, 5>> }

InitExtractor ==
    /\ audioData = EmptyObject
    /\ op = "init"
    /\ argv = [none |-> TRUE]
    /\ returned = << >>
    /\ memo = NoEntries
    /\ hist = NoEntries
    /\ HookMounted /\ settings = <<1, 20, 0>> /\ app = AppMounted(FALSE)

CallGetBeats ==
    /\ op = "init"
    /\ \E rms \in RmsInputs, rate \in FrameRates :
        /\ op' = "getBeats"
        /\ argv' = [rmsValues |-> rms, sr |-> rate[2], hopLength |-> rate[1]]
        /\ returned' = getBeats(rms, rate[2], rate[1])
        /\ UNCHANGED <<audioData, memo, hist, hookVars>>

\* the worker's computation on one processAudio message
ProcessAudio ==
    /\ op = "init"
    /\ \E rms \in RmsInputs, track \in PitchTracks, rate \in FrameRates :
        /\ op' = "processAudio"
        /\ argv' = [rms |-> rms, pitches |-> track[Len(rms)], sr |-> rate[2],
                    hopLength |-> rate[1], duration |-> <<Len(rms) * rate[1], rate[2]>>]
        /\ returned' = extract_features(rms, track[Len(rms)], rate[2], rate[1],
                                        <<Len(rms) * rate[1], rate[2]>>)
        /\ UNCHANGED <<audioData, memo, hist, hookVars>>

NextExtractor == CallGetBeats \/ ProcessAudio

SpecExtractor == InitExtractor /\ [][NextExtractor]_vars

\* ------------------------------------------------------------------ useAudioProcessor
\* The hook, the worker behind it and the effect of App that regenerates the
\* actions. A request is one processAudioFile call, numbered in call order.
MaxRequests == 2

\* stored settings: the defaults, and the defaults with overflow mode "fold"
HookSettings == { <<1, 20, 0>>, <<1, 20, 2>> }

\* what the worker extracts from the file of request id: id segments (at most
\* MaxLen), a duration that tells the files apart
DecodedFile(id) ==
    LET n == Min2(id, MaxLen)
    IN AudioFeatures([k \in 1..n |-> 1 + (k % 2)], [k \in 1..n |-> 1 + ((k + 1) % 2)],
                     [k \in 1..n |-> k], id + 1)

\* the progress messages of the worker, in posting order
Checkpoints ==
    << [value |-> 10, message |-> "Processing RMS..."],
       [value |-> 40, message |-> "Processing Pitch..."],
       [value |-> 70, message |-> "Processing Beats..."],
       [value |-> 90, message |-> "Collecting results..."] >>

ProgressMessage(id, k) ==
    [type |-> "progress", value |-> Checkpoints[k].value, message |-> Checkpoints[k].message,
     data |-> EmptyObject, request |-> id]

\* What handling one processAudio message puts on the way to the hook: all
\* four checkpoints and the features; or the checkpoints up to the step that
\* threw (getRMS, getPitch, or getBeats and the segmentation) and an error
\* message; or, for an error outside the try block, an error event only.
Outcomes ==
    { [kind |-> "audioDataReady", after |-> 4], [kind |-> "onerror", after |-> 0] }
    \cup { [kind |-> "error", after |-> k] : k \in 1..3 }
Posted(id, o) ==
    [k \in 1..o.after |-> ProgressMessage(id, k)]
    \o << [type |-> o.kind, value |-> 0, message |-> o.kind,
           data |-> IF o.kind = "audioDataReady" THEN DecodedFile(id) ELSE EmptyObject,
           request |-> id] >>

\* mutant: the failure reported, the loading flag left set
failure_still_loading(message) ==
    [progress |-> [value |-> 0 - 1, message |-> message], isLoading |-> TRUE]

\* setProgress({value: -1, message}); setIsLoading(false)
failure(message) ==
    [progress |-> [value |-> 0 - 1, message |-> message], isLoading |-> FALSE]

\* no handler of the main thread is running or about to run
MainIdle == app.mounted /\ ~ isRendering /\ ~ effectDue /\ ~ app.autoMapDue

InitHook ==
    /\ audioData = EmptyObject
    /\ op = "init"
    /\ argv = [none |-> TRUE]
    /\ returned = << >>
    /\ memo = NoEntries
    /\ hist = NoEntries
    /\ HookMounted
    /\ settings \in HookSettings
    /\ app = AppMounted(FALSE)

\* processAudioFile up to its first await
ProcessAudioFile ==
    /\ MainIdle
    /\ Len(requests) < MaxRequests
    /\ op' = "processAudioFile"
    /\ argv' = [request |-> Len(requests) + 1]
    /\ isLoading' = TRUE
    /\ progress' = [value |-> 0, message |-> "Loading audio..."]
    /\ requests' = Append(requests, "decoding")
    /\ UNCHANGED <<audioData, app, returned, memo, hist, funscriptResult, isRendering,
                   effectDue, settings, inbox, outbox>>

\* processAudioFile after its awaits: the samples are posted to the worker
Decoded ==
    \E id \in 1..Len(requests) :
        /\ MainIdle
        /\ requests[id] = "decoding"
        /\ op' = "decoded"
        /\ argv' = [request |-> id]
        /\ inbox' = Append(inbox, id)
        /\ requests' = [requests EXCEPT ![id] = "sent"]
        /\ UNCHANGED <<audioData, app, returned, memo, hist, funscriptResult, progress,
                       isLoading, isRendering, effectDue, settings, outbox>>

\* the catch block of processAudioFile
DecodeFailed ==
    \E id \in 1..Len(requests) :
        /\ MainIdle
        /\ requests[id] = "decoding"
        /\ op' = "decodeFailed"
        /\ argv' = [request |-> id]
        /\ progress' = failure("Failed to load audio").progress
        /\ isLoading' = failure("Failed to load audio").isLoading
        /\ requests' = [requests EXCEPT ![id] = "failed"]
        /\ UNCHANGED <<audioData, app, returned, memo, hist, funscriptResult, isRendering,
                       effectDue, settings, inbox, outbox>>

\* the worker handles its next processAudio message
WorkerOnMessage ==
    \E o \in Outcomes :
        /\ app.mounted
        /\ inbox # << >>
        /\ op' = "self.onmessage"
        /\ argv' = [request |-> Head(inbox)]
        /\ inbox' = Tail(inbox)
        /\ outbox' = outbox \o Posted(Head(inbox), o)
        /\ requests' = [requests EXCEPT ![Head(inbox)] = "posted"]
        /\ UNCHANGED <<audioData, app, returned, memo, hist, funscriptResult, progress,
                       isLoading, isRendering, effectDue, settings>>

\* workerRef.current.onmessage on the oldest message
OnMessage ==
    /\ MainIdle
    /\ outbox # << >>
    /\ Head(outbox).type # "onerror"
    /\ LET m == Head(outbox)
       IN /\ op' = m.type
          /\ argv' = [request |-> m.request]
          /\ outbox' = Tail(outbox)
          /\ CASE m.type = "progress" ->
                    /\ progress' = [value |-> m.value, message |-> m.message]
                    /\ isLoading' = IF m.value = 0 - 1 THEN FALSE ELSE isLoading
                    /\ UNCHANGED <<audioData, app, effectDue, requests>>
               [] m.type = "audioDataReady" ->
                    /\ audioData' = m.data
                    /\ isLoading' = FALSE
                    /\ progress' = [value |-> 100, message |-> "Audio data loaded!"]
                    /\ effectDue' = TRUE
                    /\ app' = [app EXCEPT !.autoMapDue = TRUE]
                    /\ requests' = [requests EXCEPT ![m.request] = "delivered"]
               [] m.type = "error" ->
                    /\ progress' = failure(m.message).progress
                    /\ isLoading' = failure(m.message).isLoading
                    /\ requests' = [requests EXCEPT ![m.request] = "failed"]
                    /\ UNCHANGED <<audioData, app, effectDue>>
    /\ UNCHANGED <<returned, memo, hist, funscriptResult, isRendering, settings, inbox>>

\* workerRef.current.onerror
OnError ==
    /\ MainIdle
    /\ outbox # << >>
    /\ Head(outbox).type = "onerror"
    /\ op' = "onerror"
    /\ argv' = [request |-> Head(outbox).request]
    /\ outbox' = Tail(outbox)
    /\ progress' = failure("Worker error").progress
    /\ isLoading' = failure("Worker error").isLoading
    /\ requests' = [requests EXCEPT ![Head(outbox).request] = "failed"]
    /\ UNCHANGED <<audioData, app, returned, memo, hist, funscriptResult, isRendering,
                   effectDue, settings, inbox>>

\* The effect of App on a change of audioData calls generateFunscriptActions:
\* here up to its first setProgress ...
GenerateBegin ==
    /\ effectDue /\ ~ isRendering
    /\ op' = "generateFunscriptActions"
    /\ argv' = [energy_multiplier |-> settings[1], pitch_range |-> settings[2],
                overflow |-> settings[3], amplitude_centering |-> 0, center_offset |-> 0]
    /\ effectDue' = FALSE
    /\ IF audioData.fields = {}
       THEN /\ funscriptResult' = << >>
            /\ UNCHANGED <<isRendering, progress>>
       ELSE /\ isRendering' = TRUE
            /\ progress' = [value |-> 0, message |-> "Generating actions..."]
            /\ UNCHANGED funscriptResult
    /\ UNCHANGED <<audioData, app, returned, memo, hist, isLoading, settings,
                   requests, inbox, outbox>>

\* ... and from create_actions to the finally block
GenerateEnd ==
    /\ isRendering
    /\ op' = "generated"
    /\ argv' = [energy_multiplier |-> settings[1], pitch_range |-> settings[2],
                overflow |-> settings[3], amplitude_centering |-> 0, center_offset |-> 0]
    /\ funscriptResult' = create_actions(audioData, settings[1], settings[2], settings[3], 0, 0)
    /\ progress' = [value |-> 100, message |-> "Actions generated!"]
    /\ isRendering' = FALSE
    /\ UNCHANGED <<audioData, app, returned, memo, hist, isLoading, effectDue, settings,
                   requests, inbox, outbox>>

\* the Funscript button; it is disabled while loading or rendering and
\* without actions
HandleFunscriptExport ==
    /\ MainIdle /\ ~ isLoading
    /\ funscriptResult # << >>
    /\ op' = "handleFunscriptExport"
    /\ argv' = [data |-> Plain(funscriptResult)]
    /\ returned' = dumpFunscript(Plain(funscriptResult))
    /\ UNCHANGED <<audioData, memo, hist, hookVars>>

\* the properties of the object useAudioProcessor returns
HookReturn ==
    { "audioData", "funscriptResult", "progress", "isLoading", "isRendering",
      "processAudioFile", "generateFunscriptActions", "render_heatmap_js" }

\* what App's destructuring binds to the name autoTuneParameters
autoTuneParameters ==
    IF "autoTuneParameters" \in HookReturn THEN "function" ELSE "undefined"

TypeError(message) == [threw |-> TRUE, message |-> message]

\* The auto-map effect of App; it is declared after the effect that
\* regenerates and runs after it. Calling undefined throws; an error thrown
\* in an effect outside any error boundary makes React remove the tree, so
\* no state is set and no handler runs any more.
AutoMapEffect ==
    /\ app.mounted /\ app.autoMapDue /\ ~ effectDue /\ ~ isRendering
    /\ op' = "autoMapEffect"
    /\ argv' = [autoMap |-> app.autoMap, audioData |-> audioData]
    /\ IF app.autoMap /\ audioData.fields # {}
       THEN /\ autoTuneParameters = "undefined"
            /\ returned' = TypeError("autoTuneParameters is not a function")
            /\ app' = [app EXCEPT !.autoMapDue = FALSE, !.mounted = FALSE]
       ELSE /\ app' = [app EXCEPT !.autoMapDue = FALSE]
            /\ UNCHANGED returned
    /\ UNCHANGED <<audioData, memo, hist, funscriptResult, progress, isLoading, isRendering,
                   effectDue, settings, requests, inbox, outbox>>

NextHook ==
    \/ ProcessAudioFile \/ Decoded \/ DecodeFailed \/ WorkerOnMessage
    \/ OnMessage \/ OnError \/ GenerateBegin \/ GenerateEnd \/ HandleFunscriptExport
    \/ AutoMapEffect

SpecHook == InitHook /\ [][NextHook]_vars

\* The same hook with its scheduling: a decode promise settles, the worker
\* handles every message posted to it, the browser delivers every message and
\* error event of the worker to the handlers of the hook, and React runs a
\* due effect and lets a started generateFunscriptActions finish. Nothing
\* obliges the user to load another file.
SpecHookFair ==
    /\ InitHook /\ [][NextHook]_vars
    /\ WF_vars(Decoded \/ DecodeFailed)
    /\ WF_vars(WorkerOnMessage)
    /\ WF_vars(OnMessage)
    /\ WF_vars(OnError)
    /\ WF_vars(GenerateBegin)
    /\ WF_vars(GenerateEnd)
    /\ WF_vars(AutoMapEffect)

\* App with the stored automap setting on or off (it is on by default), and
\* the user editing a tuning target, which the form allows while automap is on
InitApp ==
    /\ audioData = EmptyObject
    /\ op = "init"
    /\ argv = [none |-> TRUE]
    /\ returned = << >>
    /\ memo = NoEntries
    /\ hist = NoEntries
    /\ HookMounted
    /\ settings \in HookSettings
    /\ app \in { AppMounted(autoMap) : autoMap \in BOOLEAN }

\* setTargetPitch, setTargetSpeed or setTargetPercentage: the auto-map effect
\* depends on them
ChangeTarget ==
    /\ MainIdle /\ app.autoMap
    /\ op' = "changeTarget"
    /\ argv' = [none |-> TRUE]
    /\ app' = [app EXCEPT !.autoMapDue = TRUE]
    /\ UNCHANGED <<audioData, returned, memo, hist, funscriptResult, progress, isLoading,
                   isRendering, effectDue, settings, requests, inbox, outbox>>

NextApp == NextHook \/ ChangeTarget

SpecApp == InitApp /\ [][NextApp]_vars

\* ------------------------------------------------------------------ steps of the fold
\* single up and down steps of create_actions_barrier, from any carried
\* state: the carried position is the initial 50 or an earlier target (that
\* of a silent segment is the target of the next step too), the carried time
\* a whole or half second not after the beat
CarriedTimes == { (t * TS) \div 2 : t \in 0..(2 * MaxBeat) }
CarriedPositions == Targets \cup { 50 * PS } \cup { o + e : o \in Offsets, e \in {0} }

InitFold ==
    /\ audioData = EmptyObject
    /\ op = "init"
    /\ argv = [none |-> TRUE]
    /\ returned = [actions |-> << >>, last_pos |-> 50 * PS, last_at |-> 0]
    /\ memo = NoEntries
    /\ hist = NoEntries
    /\ HookMounted /\ settings = <<1, 20, 0>> /\ app = AppMounted(FALSE)

fold_step(name) ==
    /\ op = "init"
    /\ \E unoffset_pos \in EnergyToPos, offset \in Offsets, ov \in OverflowModes,
       last_pos \in CarriedPositions, at \in 0..MaxBeat, last_at \in CarriedTimes :
        /\ last_at <= at * TS
        /\ op' = name
        /\ argv' = [unoffset_pos |-> unoffset_pos, at |-> at * TS, offset |-> offset,
                    last_pos |-> last_pos, last_at |-> last_at, overflow |-> ov]
        /\ returned' = IF name = "up"
                       THEN up_step(unoffset_pos, at * TS, offset, last_pos, last_at, ov)
                       ELSE down_step(unoffset_pos, at * TS, offset, last_pos, last_at, ov)
        /\ UNCHANGED <<audioData, memo, hist, hookVars>>

StepUp == fold_step("up")
StepDown == fold_step("down")

NextFold == StepUp \/ StepDown

SpecFold == InitFold /\ [][NextFold]_vars

\* ------------------------------------------------------------------ helpers of the properties
IsCreateActions == op = "create_actions" /\ {"pitch", "energy", "beats"} \subseteq audioData.fields
IsResolverCall == op \in {"peak", "barrier"}

AtNonDecreasing(acts) == \A k \in 1..(Len(acts) - 1) : FracLe(acts[k].at, acts[k + 1].at)
PosInRange(acts) == \A k \in 1..Len(acts) : acts[k].pos >= 0 /\ acts[k].pos <= 100 * PS
PosInteger(acts) == \A k \in 1..Len(acts) : acts[k].pos % PS = 0

Clamp(p) == IF p < 0 THEN 0 ELSE IF p > 100 * PS THEN 100 * PS ELSE p

\* the shaped arrays of the current create_actions call
Shaped == processedData(audioData, argv.energy_multiplier, argv.pitch_range,
                        argv.amplitude_centering, argv.center_offset)
UpTarget(k) == Shaped.energy_to_pos[k] + Shaped.offsets[k]
DownTarget(k) == Shaped.offsets[k] - Shaped.energy_to_pos[k]
NumSegments == Min2(Len(audioData.pitch), Min2(Len(audioData.energy), Len(audioData.beats)))

\* C1: the action sequence returned by create_actions has non-decreasing `at`
\* for every parameter combination and every overflowMode in {0,1,2}.
C1_AtNonDecreasing == IsCreateActions => AtNonDecreasing(returned)

\* C2: overflowMode selects the resolver of every up and down step (0 Crop,
\* 1 Bounce, 2 Fold) and the carried time starts at 0 whatever the mode, so
\* the first action is at beats[0]/2.
C2_OverflowSelectsResolver ==
    IsCreateActions =>
        /\ returned = create_actions_barrier(Shaped, 0, argv.overflow)
        /\ NumSegments > 0 => FracEq(returned[1].at, <<audioData.beats[1] * TS, 2>>)

\* C3: in Crop mode every emitted pos lies in [0,100], whatever the
\* unclamped target.
C3_CropInRange == (IsCreateActions /\ argv.overflow = 0) => PosInRange(returned)

C3_Witness ==
    /\ IsCreateActions /\ argv.overflow = 0 /\ NumSegments = MaxLen
    /\ \E k \in 1..NumSegments : UpTarget(k) > 150 * PS /\ returned[2 * k - 1].pos = 100 * PS
    /\ \E k \in 1..NumSegments : DownTarget(k) < (0 - 50) * PS /\ returned[2 * k].pos = 0

\* C4: every action emitted by Crop, Bounce or Fold has an integer pos (the
\* position is rounded at emission, also by Crop on a non-integer target).
C4_IntegerPos == IsResolverCall => PosInteger(returned)

\* C5: every action emitted by Bounce and by Fold has pos within [0,100],
\* on a single call and over the steps of create_actions_barrier.
C5_BounceFoldInRange ==
    (IsResolverCall /\ argv.overflow \in {1, 2}) => PosInRange(returned)

\* C6: in Crop mode create_actions returns exactly 2*n actions,
\* n = min(len(pitch), len(energy), len(beats)); action 2i is the up target
\* e2p[i]+offset[i] at the midpoint of the previous action time (0 first) and
\* beats[i], action 2i+1 the down target -e2p[i]+offset[i] at beats[i]; and
\* the worked example gives (0.5,40),(1.0,40),(1.5,100),(2.0,10).
C6_Example ==
    /\ audioData.pitch = <<1, 2>> /\ audioData.energy = <<1, 2>> /\ audioData.beats = <<1, 2>>
    /\ argv = [energy_multiplier |-> 1, pitch_range |-> 20, overflow |-> 0,
               amplitude_centering |-> 0, center_offset |-> 0]

C6_CropUpDown ==
    (IsCreateActions /\ argv.overflow = 0) =>
        /\ Len(returned) = 2 * NumSegments
        /\ \A k \in 1..NumSegments :
             LET prev == IF k = 1 THEN 0 ELSE audioData.beats[k - 1] * TS
             IN /\ returned[2 * k - 1].pos = Clamp(UpTarget(k))
                /\ FracEq(returned[2 * k - 1].at, <<prev + audioData.beats[k] * TS, 2>>)
                /\ returned[2 * k].pos = Clamp(DownTarget(k))
                /\ FracEq(returned[2 * k].at, <<audioData.beats[k] * TS, 1>>)
        /\ C6_Example =>
             returned = << [at |-> <<2, 1>>, pos |-> 40 * PS], [at |-> <<4, 1>>, pos |-> 40 * PS],
                      [at |-> <<6, 1>>, pos |-> 100 * PS], [at |-> <<8, 1>>, pos |-> 10 * PS] >>

C6_Witness == IsCreateActions /\ C6_Example /\ Len(returned) = 4 /\ returned[3].pos = 100 * PS

\* ------------------------------------------------------------------ autoval properties
IsAutoval == op = "autoval"
Tuned == IsAutoval /\ ~ autoval_guard(audioData)
\* the requests the two stages of the current call made, and the answers
PitchAnswer == memo[pitch_request(audioData, argv.tpi)]
EnergyRequest == energy_request(audioData, returned[1], argv.target_speed, argv.v2above, argv.opt)
EnergyAnswer == IF EnergyRequest.callable THEN memo[EnergyRequest] ELSE Thrown

\* C7: on 0 segments (empty pitch/energy) and on 1 segment autoval returns
\* the defaults (pitchRange, energyMultiplier) = (100, 10).
C7_DegenerateDefaults ==
    (IsAutoval /\ {"pitch", "energy"} \subseteq audioData.fields /\ Len(audioData.pitch) <= 1)
        => returned = <<100, 10>>

\* C8: the pitchRange autoval returns lies in [-200,200] and the
\* energyMultiplier in [0,100], whatever the minimizer answers, also on the
\* early-return and failure paths.
C8_TunedInRange ==
    IsAutoval => /\ returned[1] >= 0 - 200 /\ returned[1] <= 200
                 /\ returned[2] >= 0 /\ returned[2] <= 100

C8_Witness ==
    /\ Tuned
    /\ ~ PitchAnswer.threw /\ PitchAnswer.x > 200 /\ returned[1] = 200
    /\ ~ EnergyAnswer.threw /\ EnergyAnswer.x < 0 /\ returned[2] = 0

\* C9: a throw in the pitch stage gives pitchRange 100 and the energy stage
\* still runs; a throw in the energy stage (also when the mode index selects
\* no objective) gives energyMultiplier 10; autoval returns a pair.
C9_FailureDefaults ==
    Tuned =>
        /\ Len(returned) = 2
        /\ PitchAnswer.threw => returned[1] = 100
        /\ EnergyRequest.callable => EnergyRequest \in DOMAIN memo
        /\ EnergyAnswer.threw => returned[2] = 10
        /\ ~ (argv.opt \in 0..2) => returned[2] = 10
        /\ ~ EnergyAnswer.threw => returned[2] = Min2(100, Max2(0, EnergyAnswer.x))

C9_Witness ==
    /\ Tuned /\ PitchAnswer.threw /\ returned[1] = 100
    /\ EnergyRequest.callable /\ ~ EnergyAnswer.threw /\ returned[2] = 3

C9_WitnessNoObjective ==
    Tuned /\ ~ PitchAnswer.threw /\ ~ (argv.opt \in 0..2) /\ returned = <<37, 10>>

C11_Normalize ==
    op = "normalize" =>
        LET d == argv.data
        IN /\ Len(returned) = Len(d)
           /\ d = << >> => returned = << >>
           /\ \A k \in 1..Len(d) : returned[k] >= 0 /\ returned[k] <= NS
           /\ (d # << >> /\ SeqMin(d) = SeqMax(d)) =>
                  \A k \in 1..Len(d) : 2 * returned[k] = NS
           /\ (d # << >> /\ SeqMin(d) # SeqMax(d)) =>
                  \A k \in 1..Len(d) :
                      /\ d[k] = SeqMin(d) => returned[k] = 0
                      /\ d[k] = SeqMax(d) => returned[k] = NS

\* a non-constant array with a positive minimum occurring twice
C11_Witness ==
    /\ op = "normalize" /\ Len(argv.data) = MaxLen + 1
    /\ SeqMin(argv.data) > 0 /\ SeqMin(argv.data) # SeqMax(argv.data)
    /\ \E j, k \in 1..Len(argv.data) :
           j # k /\ returned[j] = 0 /\ returned[k] = 0
    /\ \E k \in 1..Len(argv.data) : returned[k] = NS

\* C12: speed(A,B,smax) lies in [0,1] for all actions and smax > 0, also
\* when B.at < A.at; speed(A,A,smax) = 0; equal times give 0.
C12_SpeedInUnitInterval ==
    op = "speed" =>
        /\ returned[2] > 0 /\ returned[1] >= 0 /\ returned[1] <= returned[2]
        /\ argv.A = argv.B => returned[1] = 0
        /\ FracEq(argv.A.at, argv.B.at) => returned[1] = 0

\* B earlier than A at another position: the negative quotient is raised to 0
C12_Witness ==
    /\ op = "speed" /\ argv.smax > 0
    /\ ~ FracLe(argv.A.at, argv.B.at)
    /\ argv.A.pos # argv.B.pos
    /\ returned[1] = 0

\* r is x rounded to the nearest integer, halves upwards
IsRounded(r, x) == 2 * r * x[2] - x[2] <= 2 * x[1] /\ 2 * x[1] < 2 * r * x[2] + x[2]

\* C13: dumpFunscript maps each action {at, pos} to {round(at*1000),
\* round(pos)} in the same order, duration is the last output at; an empty
\* or absent list gives the same document with no actions and duration 0;
\* [{at:0.5,pos:50.2}] gives [{at:500,pos:50}] and duration 500.
C13_DumpFunscript ==
    op = "dumpFunscript" =>
        LET d == argv.data
            doc == returned
        IN /\ [doc EXCEPT !.actions = << >>, !.metadata.duration = 0] = dumpFunscript(Undefined)
           /\ (d.absent \/ d.list = << >>) =>
                  doc.actions = << >> /\ doc.metadata.duration = 0
           /\ (~ d.absent /\ d.list # << >>) =>
                  /\ Len(doc.actions) = Len(d.list)
                  /\ \A k \in 1..Len(d.list) :
                         /\ IsRounded(doc.actions[k].at,
                                      <<d.list[k].at[1] * 1000, d.list[k].at[2]>>)
                         /\ IsRounded(doc.actions[k].pos, d.list[k].pos)
                  /\ doc.metadata.duration = doc.actions[Len(doc.actions)].at
           /\ (~ d.absent /\ d.list = << [at |-> <<1, 2>>, pos |-> <<251, 5>>] >>) =>
                  /\ doc.actions = << [at |-> 500, pos |-> 50] >>
                  /\ doc.metadata.duration = 500

\* two actions whose milliseconds and positions fall on halves
C13_Witness ==
    /\ op = "dumpFunscript" /\ ~ argv.data.absent /\ Len(argv.data.list) = 2
    /\ argv.data.list[1] = [at |-> <<1, 2>>, pos |-> <<251, 5>>]
    /\ argv.data.list[2] = [at |-> <<2469, 2000>>, pos |-> <<101, 2>>]
    /\ returned.actions = << [at |-> 500, pos |-> 50], [at |-> 1235, pos |-> 51] >>
    /\ returned.metadata.duration = 1235

\* ------------------------------------------------------------------ extractor claims
\* the frame times of the current getBeats or processAudio call
CallFrames ==
    IF op = "getBeats"
    THEN framesToTime(Len(argv.rmsValues), argv.sr, argv.hopLength)
    ELSE framesToTime(Len(argv.rms), argv.sr, argv.hopLength)

\* least frame index (from 0) whose time exceeds beat j of the result
FirstAfter(j) ==
    CHOOSE k \in 0..(Len(CallFrames) - 1) :
        /\ FracLt(returned.beats[j], CallFrames[k + 1])
        /\ \A m \in 0..(k - 1) : ~ FracLt(returned.beats[j], CallFrames[m + 1])

\* the segments of the result are the spans between the frame indices
\* bounds[1] < ... < bounds[n + 1], with sums taken over each span
SegmentsAre(bounds) ==
    /\ Len(returned.energy) = Len(bounds) - 1
    /\ Len(returned.pitch) = Len(bounds) - 1
    /\ \A i \in 1..(Len(bounds) - 1) :
           /\ returned.energy[i] = SumSpan(argv.rms, bounds[i], bounds[i + 1])
           /\ returned.pitch[i] = logPitch(SumSpan(argv.pitches, bounds[i], bounds[i + 1]))

\* C15 as stated: a boundary is recorded for every beat, the first one
\* included, so N consumed beats give N+1 segments, each the span between
\* two consecutive beats (or track start/end).
C15_BoundaryPerBeat ==
    op = "processAudio" =>
        LET N == Len(returned.beats)
        IN SegmentsAre([i \in 1..(N + 2) |->
                          IF i = 1 THEN 0
                          ELSE IF i = N + 2 THEN Len(argv.rms)
                          ELSE FirstAfter(i - 1)])

\* C15 amended: every beat is consumed, and a boundary is recorded for
\* every beat but the first: N >= 1 beats give N segments, segment 1 from
\* the track start to the frame after beat 2, segment i from the frame after
\* beat i to the frame after beat i+1, the last one to the track end; a
\* track without beats is one segment.
C15_BoundaryPerBeatButFirst ==
    op = "processAudio" =>
        LET N == Len(returned.beats)
            n == Max2(1, N)
        IN /\ worker_splits(CallFrames, returned.beats).last = N
           /\ SegmentsAre([i \in 1..(n + 1) |->
                             IF i = 1 THEN 0
                             ELSE IF i = n + 1 THEN Len(argv.rms)
                             ELSE FirstAfter(i)])

\* two beats, two segments with different energy
C15_Witness ==
    /\ op = "processAudio"
    /\ Len(returned.beats) = 2
    /\ Len(returned.energy) = 2
    /\ returned.energy[1] > returned.energy[2]
    /\ returned.energy[2] > 0

\* the elements (from 1) of the RMS array whose frame time was returned
Accepted == { k \in 1..Len(argv.rmsValues) : \E j \in 1..Len(returned) : returned[j] = CallFrames[k] }
HasPrevious(k) == \E j \in Accepted : j < k
Previous(k) == CHOOSE j \in Accepted : j < k /\ \A m \in Accepted : m < k => m <= j
Candidate(k) ==
    /\ k > 1 /\ k < Len(argv.rmsValues)
    /\ 5 * argv.rmsValues[k] > SeqMax(argv.rmsValues)
    /\ argv.rmsValues[k] > argv.rmsValues[k - 1]
    /\ argv.rmsValues[k] > argv.rmsValues[k + 1]
SinceBeat(k) == FracSub(CallFrames[k], CallFrames[Previous(k)])
\* the returned times are those of the accepted frames, in order
ReturnsAccepted ==
    /\ Len(returned) = Cardinality(Accepted)
    /\ \A j \in 1..(Len(returned) - 1) : FracLt(returned[j], returned[j + 1])
    /\ 1 \notin Accepted /\ (Len(argv.rmsValues) > 0 => Len(argv.rmsValues) \notin Accepted)

C14_ExportSortedInRange ==
    op = "handleFunscriptExport" =>
        /\ \A k \in 1..(Len(returned.actions) - 1) :
               returned.actions[k].at <= returned.actions[k + 1].at
        /\ \A k \in 1..Len(returned.actions) : returned.actions[k].pos \in 0..100

\* C17: between two processAudioFile calls the progress value never
\* decreases except to the failure sentinel -1, the values set by
\* generateFunscriptActions included; the worker's messages set the
\* checkpoints 10, 40, 70, 90 and the delivery of the features sets 100.
C17_ProgressMonotone ==
    [][ /\ \/ op' = "processAudioFile"
           \/ progress'.value >= progress.value
           \/ progress'.value = 0 - 1
        /\ (op' = "progress" /\ outbox' # outbox) => progress'.value \in {10, 40, 70, 90}
        /\ (op' = "audioDataReady" /\ outbox' # outbox) => progress'.value = 100 ]_vars

\* the steps that handle a failed decode, an error message of the worker and
\* an error event of the worker
FailureStep == op' \in {"decodeFailed", "error", "onerror"} /\ requests' # requests

\* C18: a failed decode, a throw in the worker and a worker error event
\* each set progress.value to -1 and isLoading to false and leave audioData
\* and funscriptResult alone (which change only when features are
\* delivered and when actions are generated); the request stays failed and
\* nothing goes to the worker except the samples of a request that
\* processAudioFile started and whose decode has just finished.
C18_FailureIsTerminal ==
    [][ /\ FailureStep =>
               /\ progress'.value = 0 - 1
               /\ isLoading' = FALSE
               /\ audioData' = audioData
               /\ funscriptResult' = funscriptResult
               /\ inbox' = inbox
               /\ requests'[argv'.request] = "failed"
        /\ \A id \in 1..Len(requests) : requests[id] = "failed" => requests'[id] = "failed"
        /\ Len(inbox') > Len(inbox) =>
               /\ op' = "decoded" /\ requests[argv'.request] = "decoding"
               /\ inbox' = Append(inbox, argv'.request)
        /\ Len(requests') > Len(requests) => op' = "processAudioFile"
        /\ audioData' # audioData => op' = "audioDataReady"
        /\ funscriptResult' # funscriptResult => op' = "generated" ]_vars

\* the second request failed in the worker after the first one was
\* delivered and turned into actions: those are still held
C18_Witness ==
    /\ op = "error"
    /\ requests = << "delivered", "failed" >>
    /\ progress.value = 0 - 1 /\ ~ isLoading
    /\ audioData = DecodedFile(1) /\ funscriptResult # << >>
    /\ inbox = << >> /\ outbox = << >>

\* C19: once every request has delivered its features, audioData holds
\* those of the latest request, in every interleaving of the decodes and
\* worker messages.
C19_LatestRequestWins ==
    (Len(requests) >= 2 /\ \A id \in 1..Len(requests) : requests[id] = "delivered") =>
        audioData = DecodedFile(Len(requests))

\* ------------------------------------------------------------------ fold claims
IsFoldStep == op \in {"up", "down"}
LastAppended == returned.actions[Len(returned.actions)]
\* the target position of the current step
StepTarget ==
    IF op = "up" THEN argv.unoffset_pos + argv.offset ELSE argv.offset - argv.unoffset_pos

\* C20 as stated: after each up or down step the carried (lastPos, lastAt)
\* equals the pos and at of the last action appended by that step, for every
\* overflow mode and every target.
C20_CarriedIsLastAppended ==
    IsFoldStep =>
        /\ returned.last_pos = LastAppended.pos
        /\ FracEq(<<returned.last_at, 1>>, LastAppended.at)

\* C20 amended: after each step the carried lastAt is the at of the last
\* action appended by the step, and the carried lastPos is the target of the
\* step as computed, neither clamped, reflected nor rounded; it equals the
\* pos of the last appended action whenever the target is inside [0,100]
\* (and, under Bounce and Fold, an integer), and differs from it under Crop
\* whenever the target is outside [0,100].
C20_CarriedIsTarget ==
    IsFoldStep =>
        /\ FracEq(<<returned.last_at, 1>>, LastAppended.at)
        /\ returned.last_pos = StepTarget
        /\ (/\ StepTarget >= 0 /\ StepTarget <= 100 * PS
            /\ argv.overflow # 0 => StepTarget % PS = 0)
               => returned.last_pos = LastAppended.pos
        /\ (argv.overflow = 0 /\ (StepTarget < 0 \/ StepTarget > 100 * PS))
               => returned.last_pos # LastAppended.pos

\* an up step under Bounce to a target above 100: the carried position is
\* the target, the appended one its reflection
C20_Witness ==
    /\ op = "up" /\ argv.overflow = 1
    /\ StepTarget > 100 * PS /\ StepTarget < 200 * PS
    /\ returned.last_pos = StepTarget
    /\ LastAppended.pos = MathRound(200 * PS - StepTarget)
    /\ Len(returned.actions) >= 2


\* ---------------------------------------------------------------- C21
IsFoldCall == op = "peak" /\ argv.overflow = 2
IsBounceCall == op = "peak" /\ argv.overflow = 1
OutOfBounds(p) == p < 0 \/ p > 100 * PS

\* C21 as stated: create_peak_fold emits at least 1 and at most 2 actions per
\* call, for every target pos and every carried lastPos, also when both are
\* out of bounds.
C21_FoldOneOrTwo == IsFoldCall => Len(returned) \in 1..2

\* C21 amended: create_peak_fold emits 1 to 3 actions per call: one correction
\* when lastPos is out of bounds, then two actions when pos is out of bounds
\* and one otherwise; 3 exactly when both are out of bounds.
C21_FoldOneToThree ==
    IsFoldCall =>
        /\ Len(returned) \in 1..3
        /\ Len(returned) = (IF OutOfBounds(argv.last_pos) THEN 1 ELSE 0)
                           + (IF OutOfBounds(argv.pos) THEN 2 ELSE 1)

C21_Witness ==
    /\ IsFoldCall
    /\ argv.last_pos < 0 /\ argv.pos > 100 * PS
    /\ Len(returned) = 3

\* ---------------------------------------------------------------- C22
\* (distBefore*at + distAfter*lastAt) / (distBefore + distAfter), and at when
\* both distances are 0
CrossTime(limit) ==
    LET distBefore == Abs(argv.last_pos - limit)
        distAfter == Abs(argv.pos - limit)
    IN IF distBefore + distAfter = 0
       THEN <<argv.at, 1>>
       ELSE <<distBefore * argv.at + distAfter * argv.last_at, distBefore + distAfter>>

Emits(a, p, t) == a.pos = MathRound(p) /\ a.at[2] > 0 /\ FracEq(FracNorm(a.at), FracNorm(t))

BounceBoundary ==
    IF argv.last_pos < 0 THEN << <<0, CrossTime(0)>> >>
    ELSE IF argv.last_pos > 100 * PS THEN << <<100 * PS, CrossTime(100 * PS)>> >>
    ELSE << >>

BounceTarget ==
    IF argv.pos > 100 * PS
    THEN << <<100 * PS, CrossTime(100 * PS)>>, <<200 * PS - argv.pos, <<argv.at, 1>> >> >>
    ELSE IF argv.pos < 0
    THEN << <<0, CrossTime(0)>>, <<0 - argv.pos, <<argv.at, 1>> >> >>
    ELSE << <<argv.pos, <<argv.at, 1>> >> >>

\* C22: create_peak_bounce emits 1 to 3 actions per call: a boundary action
\* (0 or 100) at the crossing time only when lastPos is out of bounds, then
\* for pos>100 {100, crossTime},{200-pos, at}, for pos<0 {0, crossTime},
\* {-pos, at}, otherwise {pos, at}, positions rounded at emission; crossTime =
\* (distBefore*at + distAfter*lastAt)/(distBefore+distAfter), and int_at
\* returns at when both distances are 0.
C22_Bounce ==
    /\ IsBounceCall =>
        LET expected == BounceBoundary \o BounceTarget
        IN /\ Len(returned) \in 1..3
           /\ Len(returned) = Len(expected)
           /\ \A k \in 1..Len(expected) : Emits(returned[k], expected[k][1], expected[k][2])
    /\ op = "int_at" =>
        /\ returned[2] > 0
        /\ FracEq(FracNorm(returned), FracNorm(CrossTime(argv.limit)))
        /\ (argv.last_pos = argv.limit /\ argv.pos = argv.limit) => returned = <<argv.at, 1>>

C22_Witness ==
    /\ IsBounceCall
    /\ argv.last_pos < 0 /\ argv.pos > 100 * PS /\ argv.last_at < argv.at
    /\ Len(returned) = 3
    /\ returned[1].pos = 0 /\ returned[2].pos = 100 * PS
    /\ ~ FracEq(FracNorm(returned[1].at), FracNorm(returned[2].at))

C22_WitnessOnLimit ==
    /\ op = "int_at"
    /\ argv.last_pos = argv.limit /\ argv.pos = argv.limit /\ argv.last_at < argv.at
    /\ returned = <<argv.at, 1>>


\* ---------------------------------------------------------------- C23
\* C23: create_actions and autoval leave the AudioFeatures object they
\* receive unchanged (pitch, energy, beats and at are the same before and
\* after, and no offsets / energy_to_pos field appears on it), and a later
\* invocation with the same arguments returns what the first returned.
C23_FrameStep ==
    op' \in {"create_actions", "autoval"} =>
        /\ audioData' = audioData
        /\ audioData'.fields = audioData.fields
        /\ ~ ("offsets" \in audioData'.fields) /\ ~ ("energy_to_pos" \in audioData'.fields)
        /\ argv' \in DOMAIN hist => returned' = hist[argv'].first

Within(t, lo, hi) == FracLe(<<lo, 1>>, FracNorm(t)) /\ FracLe(FracNorm(t), <<hi, 1>>)
InTimeOrder(acts) ==
    \A k \in 1..(Len(acts) - 1) : FracLe(FracNorm(acts[k].at), FracNorm(acts[k + 1].at))

BarrierFrames ==
    Min2(Len(argv.data.energy_to_pos), Min2(Len(argv.data.beats), Len(argv.data.offsets)))

\* C24: create_actions_barrier called directly with start_time <= beats[0],
\* non-decreasing beats, any overflow mode in {0,1,2} and arbitrary targets
\* returns actions with non-decreasing at; within one resolver call with
\* lastAt <= at every action time (Bounce crossing times, Fold mid times) lies
\* in [lastAt, at], and the actions of the call are in time order, so the first
\* of two Bounce crossings is not after the second.
C24_BarrierAtNonDecreasing ==
    /\ (op = "barrier" /\ BarrierFrames > 0 /\ argv.start_time <= argv.data.beats[1]) =>
           /\ NonDecreasing(argv.data.beats)
           /\ InTimeOrder(returned)
           /\ Len(returned) >= 2 * BarrierFrames
           /\ \A k \in 1..Len(returned) :
                  Within(returned[k].at, argv.start_time * TS, argv.data.beats[BarrierFrames] * TS)
    /\ op = "peak" =>
           /\ argv.last_at <= argv.at
           /\ InTimeOrder(returned)
           /\ \A k \in 1..Len(returned) : Within(returned[k].at, argv.last_at, argv.at)

C24_Witness ==
    /\ op = "barrier" /\ argv.overflow = 1
    /\ BarrierFrames = MaxLen
    /\ argv.start_time = 1 /\ argv.data.beats[1] > 1
    /\ \E k \in 1..(Len(returned) - 1) :
           /\ returned[k].pos = 100 * PS /\ returned[k + 1].pos = 0
           /\ ~ FracLe(FracNorm(returned[k + 1].at), FracNorm(returned[k].at))

\* outside the precondition the order is lost: a start_time after the first beat
C24_WitnessLateStart ==
    /\ op = "barrier" /\ BarrierFrames > 0
    /\ argv.start_time > argv.data.beats[1]
    /\ ~ InTimeOrder(returned)


\* ---------------------------------------------------------------- C25
ObjectiveResult ==
    IF op = "cemeanv2"
    THEN create_actions(audioData, argv.energy_multiplier, argv.pres, 0, 0, 0)
    ELSE argv.result

Moves(result) == \E k \in 1..(Len(result) - 1) : result[k].pos # result[k + 1].pos

\* C25: in autoval with mode meanv2 and targetSpeed >= 1 the energy-stage
\* objective is |0 - targetPercentage| for every energy multiplier >= 0 that
\* yields at least 2 actions: each pair speed is clamped into [0,1] before it
\* is compared with targetSpeed, so no pair counts as above the target and
\* the objective does not depend on the energy multiplier.
C25_Meanv2Constant ==
    /\ (op = "cemeanv2" /\ argv.target_speed >= 1 /\ argv.energy_multiplier >= 0
          /\ Len(ObjectiveResult) >= 2) =>
           /\ returned # Infinity
           /\ FracEq(returned, FracAbsDiff(<<0, 1>>, argv.v2above))
    /\ (op = "v2_objective" /\ argv.target_speed >= 1) =>
           FracEq(returned, FracAbsDiff(<<0, 1>>, argv.v2above))

C25_Witness ==
    /\ op = "cemeanv2" /\ argv.target_speed = 1 /\ argv.energy_multiplier = 3
    /\ Len(ObjectiveResult) = 2 * MaxLen /\ Moves(ObjectiveResult)
    /\ FracEq(returned, argv.v2above)

\* a pair faster than smax, which only the clamp keeps from counting
C25_WitnessClamped ==
    /\ op = "v2_objective" /\ argv.target_speed = 1
    /\ \E k \in 1..(Len(argv.result) - 1) :
           ~ FracLe(_speed(argv.result[k], argv.result[k + 1], 400), <<1, 1>>)
    /\ FracEq(returned, argv.v2above)

\* below 1 the objective does depend on the actions
C25_WitnessLowTarget ==
    /\ op = "cemeanv2" /\ argv.target_speed = 0 /\ argv.energy_multiplier = 3
    /\ Len(ObjectiveResult) >= 2
    /\ ~ FracEq(returned, argv.v2above)


\* ---------------------------------------------------------------- C26
\* a request whose decode, extraction or delivery is still to come
Outstanding == \E id \in 1..Len(requests) : requests[id] \in {"decoding", "sent", "posted"}

\* C26: every processAudioFile call that sets isLoading to true is eventually
\* followed by isLoading becoming false (through audioDataReady, an error
\* message of the worker, the worker's onerror, or a failed decode), given
\* that the worker eventually handles every posted message; and isLoading is
\* true whenever some request is still outstanding.
C26_LoadingUntilDone ==
    /\ isLoading ~> ~ isLoading
    /\ [](Outstanding => isLoading)

\* the first half alone: loading always ends
C26_EventuallyNotLoading == isLoading ~> ~ isLoading

\* the second half alone, as long as no second file was given to the hook
C26_LoadingWhileOnlyRequest == (Len(requests) = 1 /\ Outstanding) => isLoading


\* ---------------------------------------------------------------- C27
\* C27: when autoMap is enabled and non-empty audioData arrives (or a tuning
\* target changes), the auto-map effect obtains a {pitch, energy} result from
\* the autoTuneParameters function exposed by useAudioProcessor and sets
\* pitchRange = round(pitch) and energyMultiplier = round(energy*10), after
\* which the actions are regenerated with the tuned values: the effect
\* returns with a result, not an error, the tree stays mounted and pitchRange
\* holds the tuned value.
C27_AutoMapTunes ==
    (op = "autoMapEffect" /\ argv.autoMap /\ argv.audioData.fields # {}) =>
        /\ "autoTuneParameters" \in HookReturn
        /\ app.mounted
        /\ {"pitch", "energy"} \subseteq DOMAIN returned
        /\ settings[2] = returned.pitch

\* with automap on the effect does run without harm while no audio is loaded
C27_WitnessNoAudio ==
    /\ op = "autoMapEffect" /\ argv.autoMap /\ argv.audioData.fields = {}
    /\ app.mounted /\ ~ app.autoMapDue

====
